---------------------------- MODULE Spec2Model ----------------------------
(***************************************************************************)
(* A model of src/genetic/salesman/salesman.py: a genetic algorithm for    *)
(* the Euclidean travelling salesman problem.                              *)
(*                                                                         *)
(* Conventions.                                                            *)
(*  - A route is a Python list of city indices 0..N-1.  It is modelled as  *)
(*    a TLA+ sequence, so Python position i is position i+1 here; the      *)
(*    city indices themselves stay 0-based.                                *)
(*  - Floats are modelled by integers in a run.  The city layouts of a run *)
(*    are chosen so that every pairwise Euclidean distance is an integer,  *)
(*    which makes math.sqrt and the float sums of total_distance exact on  *)
(*    them.  Where rounding matters (total_distance and fitness on their   *)
(*    own), floats are modelled bit for bit: see distance_float.           *)
(*  - random.random() is modelled in percent: a draw from RandomValues,    *)
(*    compared with a rate in percent.                                     *)
(*  - float('inf') is the integer Infinity, above every tour length.       *)
(***************************************************************************)
EXTENDS Integers, Sequences, FiniteSets, TLC

(***************************************************************************)
(* Bounds of the model.                                                    *)
(***************************************************************************)
\* most cities of a run
MaxCities == 4
\* largest pop_size of a run
MaxPopSize == 3
\* largest pop_size * len(cities) of a run
MaxGenes == 8
\* largest num_generations of a run
MaxGenerations == 2

(***************************************************************************)
(* Values of the program.                                                  *)
(***************************************************************************)
\* float('inf'), the initial best_distance
Infinity == 1000000
\* None, as an entry of the child under construction in order_crossover
NoneCity == -1
\* None, as the value of best_route
NoneRoute == <<NoneCity>>

\* crossover_rate and mutation_rate, in percent: never, and sometimes
Rates == {0, 50}
\* the values random.random() returns, in percent of [0, 1)
RandomValues == {0, 99}

\* Five points with integer pairwise distances (6, 8, 10 and 5).
RectangleLayout == << <<0, 0>>, <<6, 0>>, <<6, 8>>, <<0, 8>>, <<3, 4>> >>
\* Two coincident cities: every tour has length zero.
CoincidentLayout == << <<0, 0>>, <<0, 0>> >>

\* Four cities with irrational distances: 1, 2 and the square roots of 2, 5
\* and 10.
SkewLayout == << <<0, 0>>, <<0, 1>>, <<0, 2>>, <<1, 3>> >>

Min(a, b) == IF a < b THEN a ELSE b

\* The city sequences a run is given: generate_cities is external.
CityLayouts ==
    { SubSeq(L, 1, n) : L \in {RectangleLayout},
                        n \in 0..Min(MaxCities, Len(RectangleLayout)) }
    \cup { SubSeq(CoincidentLayout, 1, n) :
                        n \in 0..Min(MaxCities, Len(CoincidentLayout)) }

(***************************************************************************)
(* Helper functions.                                                       *)
(***************************************************************************)
\* The arguments math.sqrt is given on the layouts.
SquaredDistances ==
    LET points == { RectangleLayout[i] : i \in DOMAIN RectangleLayout }
                  \cup { CoincidentLayout[i] : i \in DOMAIN CoincidentLayout }
    IN { (p[1] - q[1]) * (p[1] - q[1]) + (p[2] - q[2]) * (p[2] - q[2]) :
             p \in points, q \in points }

\* math.sqrt, exact on the perfect squares (its floor on any other argument)
SqrtTable ==
    [n \in SquaredDistances |->
        CHOOSE r \in 0..n : r * r <= n /\ (r + 1) * (r + 1) > n]

Sqrt(n) == SqrtTable[n]

distance(city1, city2) ==
    Sqrt((city1[1] - city2[1]) * (city1[1] - city2[1])
         + (city1[2] - city2[2]) * (city1[2] - city2[2]))

RECURSIVE SumLegs(_, _, _)
\* the loop of total_distance, from Python position i on
SumLegs(route, cs, i) ==
    IF i >= Len(route) THEN 0
    ELSE distance(cs[route[i + 1] + 1], cs[route[((i + 1) % Len(route)) + 1] + 1])
         + SumLegs(route, cs, i + 1)

total_distance(route, cs) == SumLegs(route, cs, 0)

(***************************************************************************)
(* Python floats (IEEE 754 binary64) where they are not integers: the      *)
(* values of distance, total_distance and fitness on cities with integer   *)
(* coordinates whose distances are irrational.                             *)
(*                                                                         *)
(* A distance is 0 or a float in [1, 64).  Such a float is a multiple of   *)
(* 2^-52 and is kept as the pair <<hi, lo>> of the number hi * 2^28 + lo   *)
(* of these units, with lo < 2^28.  A float in [2^k, 2^(k+1)) is a         *)
(* multiple of 2^k units: its unit in the last place.                      *)
(***************************************************************************)
Limb == 2^28

\* the float of an integer 0 <= n < 64
FromInteger(n) == <<n * 2^24, 0>>

\* x < y and x <= y on pairs
Less(x, y) == x[1] < y[1] \/ (x[1] = y[1] /\ x[2] < y[2])

AtMost(x, y) == ~Less(y, x)

\* The sum and the difference (x >= y) of two pairs as numbers, not rounded.
ExactSum(x, y) ==
    LET lo == x[2] + y[2]
    IN <<x[1] + y[1] + (lo \div Limb), lo % Limb>>

ExactDifference(x, y) ==
    IF x[2] >= y[2] THEN <<x[1] - y[1], x[2] - y[2]>>
    ELSE <<x[1] - y[1] - 1, x[2] + Limb - y[2]>>

\* The binary exponent k of a number in [2^k, 2^(k+1)), 0 for a number below 2.
Exponent(x) ==
    IF x[1] < 2^25 THEN 0
    ELSE CHOOSE k \in 1..5 : 2^(24 + k) <= x[1] /\ x[1] < 2^(25 + k)

\* the unit in the last place of the floats of the binade of x, in units
UnitInLastPlace(x) == 2^Exponent(x)

\* A number of units rounded to the nearest float, ties to the even one.
RoundToFloat(x) ==
    LET u == UnitInLastPlace(x)
        rest == x[2] % u
        down == x[2] - rest
        lo == IF 2 * rest < u \/ (2 * rest = u /\ (down \div u) % 2 = 0)
              THEN down
              ELSE down + u
    IN IF lo = Limb THEN <<x[1] + 1, 0>> ELSE <<x[1], lo>>

\* x + y on floats
FloatAdd(x, y) == RoundToFloat(ExactSum(x, y))

\* math.sqrt(n) for the squared distances n of the layouts
SqrtFloats ==
    (0 :> <<0, 0>>)
    @@ (1 :> <<16777216, 0>>)
    @@ (2 :> <<23726566, 109001677>>)
    @@ (4 :> <<33554432, 0>>)
    @@ (5 :> <<37514995, 120580432>>)
    @@ (10 :> <<53054215, 95729318>>)
    @@ (25 :> <<83886080, 0>>)
    @@ (36 :> <<100663296, 0>>)
    @@ (64 :> <<134217728, 0>>)
    @@ (100 :> <<167772160, 0>>)

\* lines 26-30, as a float
distance_float(city1, city2) ==
    SqrtFloats[(city1[1] - city2[1]) * (city1[1] - city2[1])
               + (city1[2] - city2[2]) * (city1[2] - city2[2])]

\* the leg of Python position i of a route
Leg(route, cs, i) ==
    distance_float(cs[route[i + 1] + 1], cs[route[((i + 1) % Len(route)) + 1] + 1])

RECURSIVE TotalAfter(_, _, _)
\* lines 36-40: total after n iterations of the loop
TotalAfter(route, cs, n) ==
    IF n = 0 THEN FromInteger(0)
    ELSE FloatAdd(TotalAfter(route, cs, n - 1), Leg(route, cs, n - 1))

\* the open path: the loop over range(len(route) - 1), without the leg back
total_distance_float_open(route, cs) ==
    IF route = <<>> THEN FromInteger(0) ELSE TotalAfter(route, cs, Len(route) - 1)

\* lines 32-41, as a float
total_distance_float(route, cs) == TotalAfter(route, cs, Len(route))

(***************************************************************************)
(* A fitness is a float in (1/64, 1] or inf, kept as its exponent and its  *)
(* 53-bit significand: [exp |-> e, man |-> m] is m * 2^(e - 52), with m a  *)
(* pair in [2^52, 2^53).  inf has the exponent 1024 of IEEE 754, above     *)
(* every finite float.                                                     *)
(***************************************************************************)
FloatInfinity == [exp |-> 1024, man |-> <<2^24, 0>>]

\* f > g on floats
Greater(f, g) ==
    \/ f.exp > g.exp
    \/ f.exp = g.exp /\ Less(g.man, f.man)

\* The significand of a float x >= 1: x divided by its unit in the last place.
Significand(x) ==
    LET u == UnitInLastPlace(x)
    IN <<x[1] \div u, (x[1] % u) * (Limb \div u) + x[2] \div u>>

RECURSIVE LongDivision(_, _)
\* The bits left of the quotient of a long division by m: `division` holds
\* the quotient so far, the remainder so far (below m) and the number of
\* bits left.
LongDivision(division, m) ==
    IF division.steps = 0 THEN division
    ELSE LET twice == ExactSum(division.remainder, division.remainder)
             bit == IF Less(twice, m) THEN 0 ELSE 1
         IN LongDivision(
               [quotient |-> ExactSum(ExactSum(division.quotient, division.quotient),
                                      <<0, bit>>),
                remainder |-> IF bit = 1 THEN ExactDifference(twice, m) ELSE twice,
                steps |-> division.steps - 1],
               m)

\* 1 / x for a float x >= 1, rounded to the nearest float, ties to even
Reciprocal(x) ==
    LET m == Significand(x)
        k == Exponent(x)
        one == <<2^24, 0>>
    IN IF m = one THEN [exp |-> 0 - k, man |-> one]
       ELSE LET division == LongDivision([quotient |-> <<0, 0>>, remainder |-> one,
                                          steps |-> 53], m)
                q == division.quotient
                twice == ExactSum(division.remainder, division.remainder)
                up == Less(m, twice) \/ (twice = m /\ q[2] % 2 = 1)
                rounded == IF up THEN ExactSum(q, <<0, 1>>) ELSE q
            IN IF rounded = <<2^25, 0>>
               THEN [exp |-> 0 - k, man |-> one]
               ELSE [exp |-> 0 - k - 1, man |-> rounded]

\* the distance itself as the fitness
fitness_distance(route, cs) ==
    LET d == total_distance_float(route, cs)
    IN IF Less(FromInteger(0), d)
       THEN [exp |-> Exponent(d), man |-> Significand(d)]
       ELSE FloatInfinity

\* 1 as the fitness of a zero-distance route
fitness_one(route, cs) ==
    LET d == total_distance_float(route, cs)
    IN IF Less(FromInteger(0), d) THEN Reciprocal(d)
       ELSE [exp |-> 0, man |-> <<2^24, 0>>]

\* lines 43-48
fitness(route, cs) ==
    LET d == total_distance_float(route, cs)
    IN IF Less(FromInteger(0), d) THEN Reciprocal(d) ELSE FloatInfinity

\* Whether r holds each of 0..n-1 exactly once.
IsPermutation(r, n) ==
    /\ DOMAIN r = 1..n
    /\ \A c \in 0..(n - 1) : Cardinality({i \in 1..n : r[i] = c}) = 1

\* The results random.shuffle can give on list(range(n)).
Shuffles(n) == { r \in [1..n -> 0..(n - 1)] : IsPermutation(r, n) }

\* init_population: pop_size shuffled copies of the identity
init_population(p, n) == [1..p -> Shuffles(n)]

\* The elements of a list.
Range(s) == { s[i] : i \in DOMAIN s }

(***************************************************************************)
(* list.sort(key=total_distance): a stable sort, ascending.                *)
(***************************************************************************)
RECURSIVE InsertByDistance(_, _, _)
\* route placed after every entry of the sorted list whose distance is <= its own
InsertByDistance(route, sorted, cs) ==
    IF sorted = <<>> THEN <<route>>
    ELSE IF total_distance(sorted[Len(sorted)], cs) <= total_distance(route, cs)
         THEN Append(sorted, route)
         ELSE Append(InsertByDistance(route, SubSeq(sorted, 1, Len(sorted) - 1), cs),
                     sorted[Len(sorted)])

\* the list left as it is
SortByDistance_unsorted(routes, cs) == routes

RECURSIVE SortByDistance(_, _)
SortByDistance(routes, cs) ==
    IF routes = <<>> THEN <<>>
    ELSE InsertByDistance(routes[Len(routes)],
                          SortByDistance(SubSeq(routes, 1, Len(routes) - 1), cs), cs)

RECURSIVE InsertPosition(_, _, _, _)
\* The same sort on the positions of the routes in `pop`: which list object
\* ends up where.
InsertPosition(position, sorted, pop, cs) ==
    IF sorted = <<>> THEN <<position>>
    ELSE IF total_distance(pop[sorted[Len(sorted)]], cs)
               <= total_distance(pop[position], cs)
         THEN Append(sorted, position)
         ELSE Append(InsertPosition(position, SubSeq(sorted, 1, Len(sorted) - 1),
                                    pop, cs),
                     sorted[Len(sorted)])

RECURSIVE SortPositions(_, _, _)
SortPositions(positions, pop, cs) ==
    IF positions = <<>> THEN <<>>
    ELSE InsertPosition(positions[Len(positions)],
                        SortPositions(SubSeq(positions, 1, Len(positions) - 1),
                                      pop, cs),
                        pop, cs)

(***************************************************************************)
(* List objects.  A route is a Python list, and two places can hold the    *)
(* same list: a write through one is then seen through the other.  The     *)
(* places that keep routes are the slots <<"population", i>>,              *)
(* <<"new_population", i>> (Python position i - 1 of each list) and        *)
(* <<"best_route", 0>>.  The sharing between the slots is a set of         *)
(* classes, each a set of two or more slots that hold one list object.  A  *)
(* list object that is in a local variable of the program is described by  *)
(* its content and by its holders: the slots that hold it.                 *)
(***************************************************************************)
BestRouteSlot == <<"best_route", 0>>

\* The slots that hold the list object of a slot.
Holders(slot, sharing) == {slot} \cup UNION { c \in sharing : slot \in c }

\* a slice that is the list itself
ListCopy_alias(holders) == holders

\* lines 71, 156, 159, 171: x[:] is a new list, which no slot holds
ListCopy(holders) == {}

\* The sharing once the slots are bound to something else, or dropped.
Unbind(slots, sharing) ==
    { c \ slots : c \in { d \in sharing : Cardinality(d \ slots) >= 2 } }

\* The sharing once an unbound slot holds the list object of the holders.
Bind(slot, holders, sharing) ==
    IF holders = {} THEN sharing
    ELSE { c \in sharing : c \cap holders = {} } \cup { holders \cup {slot} }

\* The sharing after list.sort moved the route of position order[i] to
\* position i of the population.
Reorder(order, sharing) ==
    { { IF s[1] = "population"
        THEN <<"population", CHOOSE i \in DOMAIN order : order[i] = s[2]>>
        ELSE s : s \in c } : c \in sharing }

\* line 179: the lists of the next population are those of the population
\* now (the variable new_population is rebound at line 151 before it is
\* used again, so its slots are dropped here)
Promote(sharing) ==
    LET kept == Unbind({ s \in UNION sharing : s[1] = "population" }, sharing)
        moved == { { IF s[1] = "new_population" THEN <<"population", s[2]>> ELSE s :
                        s \in c } : c \in kept }
    IN moved

\* The slots of the next population in a sharing.
NextSlots(sharing) == { s \in UNION sharing : s[1] = "new_population" }

\* The list `routes` of the slots `list` after an in-place write to the list
\* object `object`.
WriteThrough(routes, list, object) ==
    [i \in DOMAIN routes |->
        IF <<list, i>> \in object.holders THEN object.route ELSE routes[i]]

(***************************************************************************)
(* Selection.                                                              *)
(***************************************************************************)
\* random.sample(population, k) raises ValueError unless 0 <= k <= len
SampleRaises(len, k) == k < 0 \/ k > len

\* The position lists random.sample can draw: k distinct positions, in any order.
Samples(len, k) ==
    { s \in [1..k -> 1..len] : \A i, j \in 1..k : i # j => s[i] # s[j] }

\* the list random.sample returns for the drawn positions
Tournament(pop, sample) == [i \in 1..Len(sample) |-> pop[sample[i]]]

\* tournament[-1] after the sort
BestOfTournament_last(tournament, cs) ==
    SortByDistance(tournament, cs)[Len(tournament)]

\* tournament[0] after the sort
BestOfTournament(tournament, cs) == SortByDistance(tournament, cs)[1]

\* tournament_selection raises: ValueError from the sample, IndexError from
\* tournament[0] on an empty sample
SelectionRaises(pop, k) == SampleRaises(Len(pop), k) \/ k = 0

tournament_selection(pop, cs, sample) == BestOfTournament(Tournament(pop, sample), cs)

\* The position in the population of the list tournament[0] after the sort.
WinnerPosition(pop, cs, sample) == SortPositions(sample, pop, cs)[1]

\* line 71: the list object tournament_selection returns
Selected(pop, cs, sample, sharing) ==
    [route |-> tournament_selection(pop, cs, sample),
     holders |-> ListCopy(Holders(<<"population", WinnerPosition(pop, cs, sample)>>,
                                  sharing))]

(***************************************************************************)
(* Order crossover.                                                        *)
(***************************************************************************)
\* sorted(random.sample(range(size), 2)): <<start, end>>, Python positions
CutPoints(size) ==
    { c \in (0..(size - 1)) \X (0..(size - 1)) : c[1] < c[2] }

\* random.sample(range(size), 2) raises ValueError when size < 2
TwoSampleRaises(size) == size < 2

\* child = [None] * size; child[start:end+1] = parent1[start:end+1]
CopySlice(parent1, start, end) ==
    [i \in 1..Len(parent1) |->
        IF start + 1 <= i /\ i <= end + 1 THEN parent1[i] ELSE NoneCity]

\* the fill loop without its test
NotInChild_untested(city, child) == TRUE

\* the test of the fill loop: parent2[parent2_index] not in child
NotInChild(city, child) == city \notin Range(child)

RECURSIVE FillLoop_reread(_, _, _, _, _)
\* the while loop with line 95 in an else branch: an entry of parent2 that
\* was placed is read once more
FillLoop_reread(child, current_index, parent2_index, parent2, reads) ==
    IF NoneCity \notin Range(child) THEN [child |-> child, reads |-> reads]
    ELSE IF NotInChild(parent2[parent2_index + 1], child)
         THEN FillLoop_reread([child EXCEPT ![current_index + 1] =
                                                parent2[parent2_index + 1]],
                              (current_index + 1) % Len(child),
                              parent2_index, parent2, reads + 1)
         ELSE FillLoop_reread(child, current_index,
                              (parent2_index + 1) % Len(child), parent2, reads + 1)

RECURSIVE FillLoop(_, _, _, _, _)
\* the while loop of order_crossover; reads counts its iterations
FillLoop(child, current_index, parent2_index, parent2, reads) ==
    IF NoneCity \notin Range(child) THEN [child |-> child, reads |-> reads]
    ELSE IF NotInChild(parent2[parent2_index + 1], child)
         THEN FillLoop([child EXCEPT ![current_index + 1] = parent2[parent2_index + 1]],
                       (current_index + 1) % Len(child),
                       (parent2_index + 1) % Len(child), parent2, reads + 1)
         ELSE FillLoop(child, current_index,
                       (parent2_index + 1) % Len(child), parent2, reads + 1)

\* order_crossover reading parent2 from its first entry
order_crossover_run_from_zero(parent1, parent2, start, end) ==
    FillLoop(CopySlice(parent1, start, end),
             (end + 1) % Len(parent1), 0, parent2, 0)

\* order_crossover with the roles of the parents exchanged
order_crossover_run_exchanged(parent1, parent2, start, end) ==
    FillLoop(CopySlice(parent2, start, end),
             (end + 1) % Len(parent1), (end + 1) % Len(parent1), parent1, 0)

order_crossover_run(parent1, parent2, start, end) ==
    FillLoop(CopySlice(parent1, start, end),
             (end + 1) % Len(parent1), (end + 1) % Len(parent1), parent2, 0)

order_crossover(parent1, parent2, start, end) ==
    order_crossover_run(parent1, parent2, start, end).child

(***************************************************************************)
(* Swap mutation.                                                          *)
(***************************************************************************)
\* random.sample(range(len), 2): two distinct Python positions <<a, b>>
SwapPoints(size) ==
    { c \in (0..(size - 1)) \X (0..(size - 1)) : c[1] # c[2] }

\* swap_mutation with the two assignments made one after the other
swap_mutation_sequential(individual, a, b) ==
    [individual EXCEPT ![a + 1] = individual[b + 1]]

swap_mutation(individual, a, b) ==
    [individual EXCEPT ![a + 1] = individual[b + 1], ![b + 1] = individual[a + 1]]

(***************************************************************************)
(* The run of genetic_algorithm.                                           *)
(*                                                                         *)
(* pc is the position of the run: "start" before line 145, "loop" at the   *)
(* head of the generation loop (line 150), "offspring" at the head of the  *)
(* while loop (line 163), "done" after the return and "error" after an     *)
(* exception left the function.  shared is the sharing of list objects     *)
(* between the slots of population, new_population and best_route.         *)
(***************************************************************************)
VARIABLES cities, pop_size, num_generations, tournament_size,
          crossover_rate, mutation_rate, elitism,
          population, new_population, best_route, best_distance,
          best_distance_history, generation, pc, shared,
          crossover, selection, mutation, evaluation

config == <<cities, pop_size, num_generations, tournament_size,
            crossover_rate, mutation_rate, elitism>>

vars == <<cities, pop_size, num_generations, tournament_size,
          crossover_rate, mutation_rate, elitism,
          population, new_population, best_route, best_distance,
          best_distance_history, generation, pc, shared,
          crossover, selection, mutation, evaluation>>

\* The variables of a run of genetic_algorithm.
run == <<cities, pop_size, num_generations, tournament_size,
         crossover_rate, mutation_rate, elitism,
         population, new_population, best_route, best_distance,
         best_distance_history, generation, pc, shared>>

\* The variables that hold a single call of order_crossover, of
\* tournament_selection, of swap_mutation and of total_distance and fitness
\* (see the specifications at the end); no call is recorded during a run.
calls == <<crossover, selection, mutation, evaluation>>

NoCall == [state |-> "none"]

\* The values of num_generations: no generation, one, and the most.
GenerationCounts == {0, 1, MaxGenerations}

\* The arguments of a call, within the bounds.
Init ==
    /\ cities \in CityLayouts
    /\ pop_size \in 0..MaxPopSize
    /\ pop_size * Len(cities) <= MaxGenes
    /\ num_generations \in GenerationCounts
    /\ tournament_size \in 0..(pop_size + 1)
    /\ crossover_rate \in Rates
    /\ mutation_rate \in Rates
    /\ elitism \in BOOLEAN
    /\ population = <<>>
    /\ new_population = <<>>
    /\ best_route = NoneRoute
    /\ best_distance = Infinity
    /\ best_distance_history = <<>>
    /\ generation = 0
    /\ pc = "start"
    /\ shared = {}
    /\ crossover = NoCall
    /\ selection = NoCall
    /\ mutation = NoCall
    /\ evaluation = NoCall

\* lines 145-148
Start ==
    /\ pc = "start"
    /\ population' \in init_population(pop_size, Len(cities))
    /\ best_route' = NoneRoute
    /\ best_distance' = Infinity
    /\ best_distance_history' = <<>>
    /\ pc' = "loop"
    /\ shared' = {}
    /\ UNCHANGED <<calls, config, new_population, generation>>

\* the generation loop over range(num_generations - 1)
LoopContinues_short(g, n) == g + 1 < n

\* line 150: the generation loop goes on
LoopContinues(g, n) == g < n

\* the record replaced on a higher distance
Improves_above(d, best) == d > best

\* line 157: the record is replaced on a strictly lower distance only
Improves(d, best) == d < best

\* the while loop with <= for <
NeedsOffspring_inclusive(next, size) == Len(next) <= size

\* line 163: the while loop goes on
NeedsOffspring(next, size) == Len(next) < size

\* the history with the newest entry first
AppendHistory_front(history, d) == <<d>> \o history

\* the history without an entry for a generation that improved nothing
AppendHistory_changes(history, d) ==
    IF history # <<>> /\ history[Len(history)] = d THEN history
    ELSE Append(history, d)

\* line 181
AppendHistory(history, d) == Append(history, d)

\* the generation with the population it built counted in its history entry
Continue_counted(current, next, best, sharing) ==
    IF NeedsOffspring(next, pop_size)
    THEN /\ population' = current
         /\ new_population' = next
         /\ pc' = "offspring"
         /\ shared' = sharing
         /\ UNCHANGED <<best_distance_history, generation>>
    ELSE /\ population' = next
         /\ new_population' = next
         /\ best_distance_history' =
               AppendHistory(best_distance_history,
                             IF \E i \in DOMAIN next :
                                   total_distance(next[i], cities) < best
                             THEN CHOOSE d \in { total_distance(next[i], cities) :
                                                    i \in DOMAIN next } :
                                     \A j \in DOMAIN next :
                                        d <= total_distance(next[j], cities)
                             ELSE best)
         /\ generation' = generation + 1
         /\ pc' = "loop"
         /\ shared' = Promote(sharing)

\* the generation with line 179 inside the while loop: the next population
\* replaces the current one after every child
Continue_eager(current, next, best, sharing) ==
    IF NeedsOffspring(next, pop_size)
    THEN /\ population' = next
         /\ new_population' = next
         /\ pc' = "offspring"
         /\ shared' = sharing
         /\ UNCHANGED <<best_distance_history, generation>>
    ELSE /\ population' = next
         /\ new_population' = next
         /\ best_distance_history' = AppendHistory(best_distance_history, best)
         /\ generation' = generation + 1
         /\ pc' = "loop"
         /\ shared' = Promote(sharing)

\* The rest of a generation once `next` holds the elite (if any) and the
\* children so far: back to the while loop, or lines 179-181 and the next
\* generation.  `current` is the population as the elitism sort left it and
\* `sharing` the sharing of the list objects so far.
Continue(current, next, best, sharing) ==
    IF NeedsOffspring(next, pop_size)
    THEN /\ population' = current
         /\ new_population' = next
         /\ pc' = "offspring"
         /\ shared' = sharing
         /\ UNCHANGED <<best_distance_history, generation>>
    ELSE /\ population' = next
         /\ new_population' = next
         /\ best_distance_history' = AppendHistory(best_distance_history, best)
         /\ generation' = generation + 1
         /\ pc' = "loop"
         /\ shared' = Promote(sharing)

\* lines 154-156 on an empty population: population[0] raises IndexError
ElitismRaises ==
    /\ pc = "loop"
    /\ LoopContinues(generation, num_generations)
    /\ elitism
    /\ population = <<>>
    /\ new_population' = <<>>
    /\ pc' = "error"
    /\ UNCHANGED <<calls, config, population, best_route, best_distance,
                   best_distance_history, generation, shared>>

\* lines 150-163 with elitism
BeginWithElitism ==
    /\ pc = "loop"
    /\ LoopContinues(generation, num_generations)
    /\ elitism
    /\ population # <<>>
    /\ LET sorted == SortByDistance(population, cities)
           best_in_population == sorted[1]
           d == total_distance(best_in_population, cities)
           improved == Improves(d, best_distance)
           best == IF improved THEN d ELSE best_distance
           \* lines 151 and 155: a new list new_population, the population
           \* list reordered
           order == SortPositions([i \in DOMAIN population |-> i],
                                  population, cities)
           reordered == Reorder(order, Unbind(NextSlots(shared), shared))
           \* lines 156 and 160: the copy of population[0], appended
           elite == Bind(<<"new_population", 1>>,
                         ListCopy(Holders(<<"population", 1>>, reordered)),
                         reordered)
           \* line 159: the copy of best_in_population
           recorded == Bind(BestRouteSlot,
                            ListCopy(Holders(<<"new_population", 1>>, elite)),
                            Unbind({BestRouteSlot}, elite))
       IN /\ best_distance' = best
          /\ best_route' = IF improved THEN best_in_population ELSE best_route
          /\ Continue(sorted, <<best_in_population>>, best,
                      IF improved THEN recorded ELSE elite)
    /\ UNCHANGED <<calls, config>>

\* lines 150-163 without elitism
BeginWithoutElitism ==
    /\ pc = "loop"
    /\ LoopContinues(generation, num_generations)
    /\ ~elitism
    /\ Continue(population, <<>>, best_distance, Unbind(NextSlots(shared), shared))
    /\ UNCHANGED <<calls, config, best_route, best_distance>>

\* a draw compared with <= for <
CanFire_inclusive(rate) == \E r \in RandomValues : r <= rate

\* Whether random.random() < rate can hold, and whether it can fail.
CanFire(rate) == \E r \in RandomValues : r < rate
CanSkip(rate) == \E r \in RandomValues : ~(r < rate)

\* lines 164-165: the list objects a tournament selection can return
Parents(pop, cs, k, sharing) ==
    { Selected(pop, cs, s, sharing) : s \in Samples(Len(pop), k) }

\* lines 168-171: the list object child after the crossover step; the child
\* order_crossover returns is a new list (line 79), which no slot holds
Crossed(parent1, parent2, rate) ==
    (IF CanFire(rate)
     THEN { [route |-> order_crossover(parent1.route, parent2.route, cut[1], cut[2]),
             holders |-> {}] : cut \in CutPoints(Len(parent1.route)) }
     ELSE {})
    \cup (IF CanSkip(rate)
          THEN {[route |-> parent1.route, holders |-> ListCopy(parent1.holders)]}
          ELSE {})

\* lines 174-175: the list object child after the mutation step, which
\* writes to the list in place
Mutated(child, rate) ==
    (IF CanFire(rate)
     THEN { [route |-> swap_mutation(child.route, swap[1], swap[2]),
             holders |-> child.holders] : swap \in SwapPoints(Len(child.route)) }
     ELSE {})
    \cup (IF CanSkip(rate) THEN {child} ELSE {})

\* lines 164-175: an iteration of the while loop that raises: the sample of a
\* tournament, the cut points of a crossover or the positions of a mutation
OffspringRaises ==
    /\ pc = "offspring"
    /\ \/ SelectionRaises(population, tournament_size)
       \/ /\ ~SelectionRaises(population, tournament_size)
          /\ TwoSampleRaises(Len(cities))
          /\ CanFire(crossover_rate) \/ CanFire(mutation_rate)
    /\ pc' = "error"
    /\ UNCHANGED <<calls, config, population, new_population, best_route, best_distance,
                   best_distance_history, generation, shared>>

\* lines 164-175: the children an iteration of the while loop can produce
Children(pop, cs, k, crossing, mutating, sharing) ==
    LET parents == Parents(pop, cs, k, sharing)
        crossed == UNION { Crossed(parent1, parent2, crossing) :
                               parent1 \in parents, parent2 \in parents }
    IN UNION { Mutated(crossover_child, mutating) : crossover_child \in crossed }

\* lines 164-181: an iteration of the while loop that appends its child
Offspring ==
    /\ pc = "offspring"
    /\ ~SelectionRaises(population, tournament_size)
    /\ \E child \in Children(population, cities, tournament_size,
                             crossover_rate, mutation_rate, shared) :
          /\ best_route' = IF BestRouteSlot \in child.holders THEN child.route
                           ELSE best_route
          /\ Continue(WriteThrough(population, "population", child),
                      Append(WriteThrough(new_population, "new_population", child),
                             child.route),
                      best_distance,
                      Bind(<<"new_population", Len(new_population) + 1>>,
                           child.holders, shared))
    /\ UNCHANGED <<calls, config, best_distance>>

\* line 185
Return ==
    /\ pc = "loop"
    /\ ~LoopContinues(generation, num_generations)
    /\ pc' = "done"
    /\ UNCHANGED <<calls, config, population, new_population, best_route, best_distance,
                   best_distance_history, generation, shared>>

Next ==
    \/ Start
    \/ ElitismRaises
    \/ BeginWithElitism
    \/ BeginWithoutElitism
    \/ OffspringRaises
    \/ Offspring
    \/ Return

Spec == Init /\ [][Next]_vars

(***************************************************************************)
(* A single call of order_crossover(parent1, parent2), on two permutations *)
(* of the same cities.                                                     *)
(***************************************************************************)
NoRun ==
    /\ cities = <<>>
    /\ pop_size = 0
    /\ num_generations = 0
    /\ tournament_size = 0
    /\ crossover_rate = 0
    /\ mutation_rate = 0
    /\ elitism = FALSE
    /\ population = <<>>
    /\ new_population = <<>>
    /\ best_route = NoneRoute
    /\ best_distance = Infinity
    /\ best_distance_history = <<>>
    /\ generation = 0
    /\ pc = "none"
    /\ shared = {}

\* Two parents of five cities, of which one is the other read backwards.
AscendingParent == <<0, 1, 2, 3, 4>>
DescendingParent == <<4, 3, 2, 1, 0>>

\* The pairs of parents of a call: two permutations of the same cities,
\* within the bound, and the pair of five cities above.
CrossoverParents ==
    UNION { Shuffles(size) \X Shuffles(size) : size \in 0..MaxCities }
    \cup { <<AscendingParent, DescendingParent>> }

CrossoverInit ==
    /\ NoRun
    /\ selection = NoCall
    /\ mutation = NoCall
    /\ evaluation = NoCall
    /\ \E parents \in CrossoverParents :
          crossover = [state |-> "called", parent1 |-> parents[1],
                       parent2 |-> parents[2], start |-> 0, end |-> 0,
                       child |-> <<>>, reads |-> 0]

\* line 82 on fewer than two cities: random.sample raises ValueError
CrossoverRaises ==
    /\ crossover.state = "called"
    /\ TwoSampleRaises(Len(crossover.parent1))
    /\ crossover' = [crossover EXCEPT !.state = "raised"]
    /\ UNCHANGED <<run, selection, mutation, evaluation>>

\* lines 78-97
Crossover ==
    /\ crossover.state = "called"
    /\ ~TwoSampleRaises(Len(crossover.parent1))
    /\ \E cut \in CutPoints(Len(crossover.parent1)) :
          LET result == order_crossover_run(crossover.parent1, crossover.parent2,
                                            cut[1], cut[2])
          IN crossover' = [crossover EXCEPT !.state = "returned",
                                            !.start = cut[1], !.end = cut[2],
                                            !.child = result.child,
                                            !.reads = result.reads]
    /\ UNCHANGED <<run, selection, mutation, evaluation>>

CrossoverNext == CrossoverRaises \/ Crossover

CrossoverSpec == CrossoverInit /\ [][CrossoverNext]_vars

(***************************************************************************)
(* A single call of tournament_selection(population, cities,               *)
(* tournament_size).  The cities are the four corners of the rectangle,    *)
(* whose tours have three different lengths; the population is any list of *)
(* at most MaxPopSize tours from city 0.  The call is followed by what     *)
(* genetic_algorithm can do next (lines 164-175): a swap_mutation of the   *)
(* returned list, in place, and another tournament_selection, here with    *)
(* the same sample.  `population` is the content of the population list    *)
(* now and `before` its content when the first call was made; `result` is  *)
(* the content of the returned list now and `returned` its content when it *)
(* was returned; `holders` are the slots of the population that hold the   *)
(* returned list; `again` is what the second call returned.                *)
(***************************************************************************)
Corners == SubSeq(RectangleLayout, 1, Len(RectangleLayout) - 1)

ToursFromZero == { r \in Shuffles(Len(Corners)) : r[1] = 0 }

SelectionInit ==
    /\ NoRun
    /\ crossover = NoCall
    /\ mutation = NoCall
    /\ evaluation = NoCall
    /\ \E size \in 0..MaxPopSize :
          \E pop \in [1..size -> ToursFromZero], k \in 0..(size + 1) :
             selection = [state |-> "called", population |-> pop,
                          cities |-> Corners, tournament_size |-> k,
                          sample |-> <<>>, result |-> NoneRoute,
                          before |-> pop, holders |-> {},
                          returned |-> NoneRoute, again |-> NoneRoute]

\* lines 69-71 raising: ValueError from random.sample, IndexError from tournament[0]
SelectionFails ==
    /\ selection.state = "called"
    /\ SelectionRaises(selection.population, selection.tournament_size)
    /\ selection' = [selection EXCEPT !.state = "raised"]
    /\ UNCHANGED <<run, crossover, mutation, evaluation>>

\* lines 69-71
Selection ==
    /\ selection.state = "called"
    /\ ~SelectionRaises(selection.population, selection.tournament_size)
    /\ \E sample \in Samples(Len(selection.population), selection.tournament_size) :
          LET object == Selected(selection.population, selection.cities, sample, {})
          IN selection' = [selection EXCEPT
                              !.state = "returned",
                              !.sample = sample,
                              !.result = object.route,
                              !.returned = object.route,
                              !.holders = object.holders]
    /\ UNCHANGED <<run, crossover, mutation, evaluation>>

\* lines 104-106 on the returned list: a write in place
SelectionMutate ==
    /\ selection.state = "returned"
    /\ ~TwoSampleRaises(Len(selection.result))
    /\ \E swap \in SwapPoints(Len(selection.result)) :
          LET object == [route |-> swap_mutation(selection.result, swap[1], swap[2]),
                         holders |-> selection.holders]
          IN selection' = [selection EXCEPT
                              !.state = "mutated",
                              !.result = object.route,
                              !.population = WriteThrough(selection.population,
                                                          "population", object)]
    /\ UNCHANGED <<run, crossover, mutation, evaluation>>

\* lines 69-71 once more, with the same sample
SelectionAgain ==
    /\ selection.state = "mutated"
    /\ selection' = [selection EXCEPT
                        !.state = "again",
                        !.again = Selected(selection.population, selection.cities,
                                           selection.sample, {}).route]
    /\ UNCHANGED <<run, crossover, mutation, evaluation>>

SelectionNext ==
    \/ SelectionFails
    \/ Selection
    \/ SelectionMutate
    \/ SelectionAgain

SelectionSpec == SelectionInit /\ [][SelectionNext]_vars

(***************************************************************************)
(* A single call of swap_mutation(individual) on a permutation.  The list  *)
(* is changed in place: `individual` is its content before the call and    *)
(* `result` its content after it, which is also what the call returns.     *)
(***************************************************************************)
MutationInit ==
    /\ NoRun
    /\ crossover = NoCall
    /\ selection = NoCall
    /\ evaluation = NoCall
    /\ \E size \in 0..MaxCities :
          \E individual \in Shuffles(size) :
             mutation = [state |-> "called", individual |-> individual,
                         a |-> 0, b |-> 0, result |-> individual]

\* line 104 on fewer than two cities: random.sample raises ValueError
MutationRaises ==
    /\ mutation.state = "called"
    /\ TwoSampleRaises(Len(mutation.individual))
    /\ mutation' = [mutation EXCEPT !.state = "raised"]
    /\ UNCHANGED <<run, crossover, selection, evaluation>>

\* lines 104-106
Mutation ==
    /\ mutation.state = "called"
    /\ ~TwoSampleRaises(Len(mutation.individual))
    /\ \E swap \in SwapPoints(Len(mutation.individual)) :
          mutation' = [mutation EXCEPT
                          !.state = "returned",
                          !.a = swap[1],
                          !.b = swap[2],
                          !.result = swap_mutation(mutation.individual,
                                                   swap[1], swap[2])]
    /\ UNCHANGED <<run, crossover, selection, evaluation>>

MutationNext == MutationRaises \/ Mutation

MutationSpec == MutationInit /\ [][MutationNext]_vars

(***************************************************************************)
(* total_distance and fitness, as floats, applied to two routes a and b,   *)
(* each a permutation of the cities of a layout of its own, and            *)
(* total_distance applied to a read backwards.                             *)
(***************************************************************************)
Reverse(route) == [i \in 1..Len(route) |-> route[Len(route) + 1 - i]]

EvaluationLayouts == CityLayouts \cup {SkewLayout}

EvaluationInit ==
    /\ NoRun
    /\ crossover = NoCall
    /\ selection = NoCall
    /\ mutation = NoCall
    /\ \E cities_a, cities_b \in EvaluationLayouts :
          \E a \in Shuffles(Len(cities_a)), b \in Shuffles(Len(cities_b)) :
             evaluation = [state |-> "called",
                           cities_a |-> cities_a, a |-> a,
                           cities_b |-> cities_b, b |-> b,
                           distance_a |-> FromInteger(0),
                           distance_b |-> FromInteger(0),
                           distance_reversed |-> FromInteger(0),
                           fitness_a |-> FloatInfinity,
                           fitness_b |-> FloatInfinity]

\* lines 32-48
Evaluate ==
    /\ evaluation.state = "called"
    /\ evaluation' = [evaluation EXCEPT
          !.state = "evaluated",
          !.distance_a = total_distance_float(evaluation.a, evaluation.cities_a),
          !.distance_b = total_distance_float(evaluation.b, evaluation.cities_b),
          !.distance_reversed = total_distance_float(Reverse(evaluation.a),
                                                     evaluation.cities_a),
          !.fitness_a = fitness(evaluation.a, evaluation.cities_a),
          !.fitness_b = fitness(evaluation.b, evaluation.cities_b)]
    /\ UNCHANGED <<run, crossover, selection, mutation>>

EvaluationNext == Evaluate

EvaluationSpec == EvaluationInit /\ [][EvaluationNext]_vars

(***************************************************************************)
(* Properties.                                                             *)
(***************************************************************************)
NumCities == Len(cities)

\* The configurations section 6 of the specification allows (the rates of
\* the model are always in [0, 1]).
ValidConfiguration ==
    /\ pop_size >= 2
    /\ num_generations >= 1
    /\ 1 <= tournament_size
    /\ tournament_size <= pop_size

\* C1: in a run on a valid configuration with at least two cities, every
\* route of the current population, every route of the next population
\* being built and the recorded best route (once set) holds each city index
\* 0..N-1 exactly once.
C1_PermutationInvariant ==
    (ValidConfiguration /\ NumCities >= 2) =>
        /\ \A i \in DOMAIN population : IsPermutation(population[i], NumCities)
        /\ \A i \in DOMAIN new_population :
              IsPermutation(new_population[i], NumCities)
        /\ best_route # NoneRoute => IsPermutation(best_route, NumCities)

\* The first generation of a run on four cities is complete, with crossover
\* and mutation possible: the population is the elite copy, which is the
\* recorded best route, and a child that differs from it.
C1_Witness ==
    /\ ValidConfiguration
    /\ NumCities = 4
    /\ elitism
    /\ crossover_rate > 0
    /\ mutation_rate > 0
    /\ generation = 1
    /\ pc = "loop"
    /\ best_route = population[1]
    /\ population[2] # population[1]

\* C2: order_crossover on two permutations of the same N >= 2 cities returns,
\* for every pair of cut points, a list of length N without None that holds
\* every city exactly once.
C2_CrossoverReturnsPermutation ==
    (crossover.state = "returned" /\ Len(crossover.parent1) >= 2) =>
        /\ Len(crossover.child) = Len(crossover.parent1)
        /\ NoneCity \notin Range(crossover.child)
        /\ IsPermutation(crossover.child, Len(crossover.parent1))

\* A crossover of two different parents of four cities whose child is
\* neither parent.
C2_Witness ==
    /\ crossover.state = "returned"
    /\ Len(crossover.parent1) = 4
    /\ crossover.child # crossover.parent1
    /\ crossover.child # crossover.parent2
    /\ crossover.reads > 2

\* C3: the child of order_crossover equals parent1 at every position from
\* start to end.
C3_CrossoverInheritance ==
    crossover.state = "returned" =>
        \A i \in crossover.start..crossover.end :
            crossover.child[i + 1] = crossover.parent1[i + 1]

\* A crossover with an inner block (start > 0, end < N - 1) where parent2
\* differs from parent1 inside the block.
C3_Witness ==
    /\ crossover.state = "returned"
    /\ crossover.start = 1
    /\ crossover.end = 2
    /\ Len(crossover.parent1) = 4
    /\ crossover.parent2[2] # crossover.parent1[2]
    /\ crossover.parent2[3] # crossover.parent1[3]

\* C4: with elitism the history is non-increasing: history[g+1] <= history[g].
C4_HistoryNonIncreasing ==
    elitism =>
        \A g \in 1..(Len(best_distance_history) - 1) :
            best_distance_history[g + 1] <= best_distance_history[g]

\* A run with elitism whose second generation improved the best distance.
C4_Witness ==
    /\ elitism
    /\ Len(best_distance_history) = 2
    /\ best_distance_history[2] < best_distance_history[1]

\* C5 (as claimed): on a valid configuration with N >= 2, with or without
\* elitism, the run returns a permutation of the cities and a finite distance.
C5_OutputContract ==
    (pc = "done" /\ ValidConfiguration /\ NumCities >= 2) =>
        /\ IsPermutation(best_route, NumCities)
        /\ best_distance < Infinity

\* C6: the history has one entry per completed generation, an entry once
\* appended never changes, and the returned history has num_generations
\* entries.
C6_HistoryAppendOnly ==
    /\ [](Len(best_distance_history) = generation)
    /\ [][/\ Len(best_distance_history') \in
                {Len(best_distance_history), Len(best_distance_history) + 1}
          /\ SubSeq(best_distance_history', 1, Len(best_distance_history))
                = best_distance_history]_vars
    /\ [](pc = "done" => Len(best_distance_history) = num_generations)

\* A run that returned a history of two different entries.
C6_Witness ==
    /\ pc = "done"
    /\ Len(best_distance_history) = 2
    /\ best_distance_history[1] # best_distance_history[2]

\* C7: tournament_selection draws tournament_size distinct positions of the
\* population and returns a route of the sample whose total distance is at
\* most that of every route of the sample.
C7_TournamentValid ==
    selection.state = "returned" =>
        /\ Len(selection.sample) = selection.tournament_size
        /\ \A i, j \in DOMAIN selection.sample :
              i # j => selection.sample[i] # selection.sample[j]
        /\ \E i \in DOMAIN selection.sample :
              selection.result = selection.population[selection.sample[i]]
        /\ \A i \in DOMAIN selection.sample :
              total_distance(selection.result, selection.cities)
                 <= total_distance(selection.population[selection.sample[i]],
                                   selection.cities)

\* A tournament of two out of three routes of three different lengths, the
\* shortest route of the population not sampled and the longer sampled first.
C7_Witness ==
    /\ selection.state = "returned"
    /\ Len(selection.population) = 3
    /\ selection.tournament_size = 2
    /\ \E i \in 1..3 :
          /\ \A j \in 1..2 : selection.sample[j] # i
          /\ total_distance(selection.population[i], selection.cities)
                < total_distance(selection.result, selection.cities)
    /\ total_distance(selection.population[selection.sample[1]], selection.cities)
          > total_distance(selection.population[selection.sample[2]], selection.cities)

\* C8: for pop_size >= 1 the population has pop_size routes at every
\* generation boundary, and the next population never has more.
C8_FixedPopulationSize ==
    pop_size >= 1 =>
        /\ pc \in {"loop", "offspring", "done"} => Len(population) = pop_size
        /\ pc \in {"loop", "offspring", "done"} => Len(new_population) <= pop_size

\* Two generations of three children each, without elitism.
C8_Witness ==
    /\ pop_size = 3
    /\ ~elitism
    /\ generation = 2
    /\ pc = "loop"
    /\ Len(population) = 3

\* C9 (as claimed): with pop_size >= 1 and tournament_size < 1 or
\* tournament_size > pop_size no generation completes and the run does not
\* return.  Stated for the runs whose other arguments are valid: at least
\* two cities and at least one generation.
C9_InvalidTournamentRejected ==
    (/\ pop_size >= 1
     /\ tournament_size < 1 \/ tournament_size > pop_size
     /\ NumCities >= 2
     /\ num_generations >= 1) =>
        /\ generation = 0
        /\ pc # "done"

\* C10 (as claimed): a run on no cities or with pop_size = 0 does not
\* return.  Stated for the runs of at least one generation: with pop_size = 0
\* for those on two cities or more, and on no cities for those whose pop_size
\* and tournament_size are valid.
C10_EmptyInputRejected ==
    (/\ num_generations >= 1
     /\ \/ pop_size = 0 /\ NumCities >= 2
        \/ NumCities = 0 /\ pop_size >= 2
              /\ 1 <= tournament_size /\ tournament_size <= pop_size) =>
        pc # "done"

\* C11 (as claimed): a run on a single city with pop_size >= 2 and
\* 1 <= tournament_size <= pop_size, whatever the rates, does not raise and
\* returns the best distance 0 after num_generations generations.  Stated
\* for the runs with elitism, which record the best distance.
C11_SingleCityRuns ==
    (NumCities = 1 /\ ValidConfiguration /\ elitism) =>
        /\ pc # "error"
        /\ pc = "done" => (best_distance = 0 /\ generation = num_generations)

\* C12 (as claimed): a run that raises does so before any generation has
\* completed.  Stated for the runs on at least one city whose pop_size,
\* tournament_size and num_generations are valid.  A run that completes a
\* generation and raises in a later one also shows that the random draws
\* decide whether the input raises: both generations started from a
\* population of the same routes.
C12_FailuresImmediate ==
    (pc = "error" /\ ValidConfiguration /\ NumCities >= 1) => generation = 0

\* C13: with pop_size = 1 and elitism the while loop is never entered (so no
\* selection, crossover or mutation takes place) and nothing raises; the
\* population stays the one route init_population made, the next population
\* of a generation is that route, and every history entry is its total
\* distance.
C13_SingleRouteElitism ==
    /\ []((pop_size = 1 /\ elitism) =>
            /\ pc \notin {"offspring", "error"}
            /\ pc \in {"loop", "done"} =>
                  /\ Len(population) = 1
                  /\ \A g \in DOMAIN best_distance_history :
                        best_distance_history[g]
                           = total_distance(population[1], cities))
    /\ [][(pop_size = 1 /\ elitism /\ pc = "loop") =>
             /\ population' = population
             /\ pc' = "loop" => new_population' = population]_vars

\* A run of two generations on four cities with one route, elitism and both
\* rates positive has returned.
C13_Witness ==
    /\ pop_size = 1
    /\ elitism
    /\ NumCities = 4
    /\ crossover_rate > 0
    /\ mutation_rate > 0
    /\ pc = "done"
    /\ Len(best_distance_history) = 2
    /\ best_distance_history[1] = best_distance_history[2]
    /\ best_distance_history[1] = total_distance(population[1], cities)

\* C14: swap_mutation on a permutation of N >= 2 cities draws two positions
\* a # b, puts the content of each at the other and leaves every other
\* position as it was; the result is a permutation that differs from the
\* input at positions a and b and nowhere else.  Positions 0 and 2 of
\* [0, 1, 2, 3] give [2, 1, 0, 3].
C14_SwapMutation ==
    (mutation.state = "returned" /\ Len(mutation.individual) >= 2) =>
        LET n == Len(mutation.individual)
            a == mutation.a + 1
            b == mutation.b + 1
        IN /\ a \in 1..n /\ b \in 1..n /\ a # b
           /\ mutation.result[a] = mutation.individual[b]
           /\ mutation.result[b] = mutation.individual[a]
           /\ \A i \in 1..n :
                 i \notin {a, b} => mutation.result[i] = mutation.individual[i]
           /\ IsPermutation(mutation.result, n)
           /\ { i \in 1..n : mutation.result[i] # mutation.individual[i] } = {a, b}
           /\ (mutation.individual = <<0, 1, 2, 3>> /\ a = 1 /\ b = 3) =>
                 mutation.result = <<2, 1, 0, 3>>

\* Positions 0 and 2 of [0, 1, 2, 3] were swapped.
C14_Witness ==
    /\ mutation.state = "returned"
    /\ mutation.individual = <<0, 1, 2, 3>>
    /\ mutation.a = 0
    /\ mutation.b = 2
    /\ mutation.result = <<2, 1, 0, 3>>

RECURSIVE ExactLegs(_, _, _)
\* The sum over i in 0..n-1 of the distance from route[i] to
\* route[(i + 1) mod N], not rounded.
ExactLegs(route, cs, n) ==
    IF n = 0 THEN FromInteger(0)
    ELSE ExactSum(Leg(route, cs, n - 1), ExactLegs(route, cs, n - 1))

\* Whether x and y are at most n half units in the last place apart.
Within(x, y, n) ==
    LET gap == IF Less(x, y) THEN ExactDifference(y, x) ELSE ExactDifference(x, y)
        u == UnitInLastPlace(IF Less(x, y) THEN y ELSE x)
    IN gap[1] = 0 /\ 2 * gap[2] <= n * u

\* Whether every leg of the route a has an integer length.
IntegerLegs ==
    \A i \in 0..(Len(evaluation.a) - 1) :
        \E n \in 0..63 : Leg(evaluation.a, evaluation.cities_a, i) = FromInteger(n)

\* The float additions of total_distance that can round: all but the first.
Roundings == IF evaluation.a = <<>> THEN 0 ELSE Len(evaluation.a) - 1

\* total_distance of a is the sum of the N legs of the closed cycle, up to
\* the rounding of the float additions: half a unit in the last place each.
ClosedCycleLength ==
    Within(evaluation.distance_a,
           ExactLegs(evaluation.a, evaluation.cities_a, Len(evaluation.a)),
           Roundings)

\* C15 (as claimed): total_distance of a permutation route is the length of
\* the closed cycle, and the route read backwards has the same
\* total_distance.
C15_ClosedCycleReverse ==
    evaluation.state = "evaluated" =>
        /\ ClosedCycleLength
        /\ evaluation.distance_reversed = evaluation.distance_a

\* C15 (amended): total_distance of a permutation route is the length of the
\* closed cycle up to float rounding; the route read backwards has the same
\* total_distance when it has at most three cities or all its legs have
\* integer lengths (then the sum is exact too), and in general one that is
\* at most N - 1 units in the last place away.
C15_ClosedCycleReverseRounded ==
    evaluation.state = "evaluated" =>
        /\ ClosedCycleLength
        /\ Within(evaluation.distance_reversed, evaluation.distance_a,
                  2 * Roundings)
        /\ Len(evaluation.a) <= 3 =>
              evaluation.distance_reversed = evaluation.distance_a
        /\ IntegerLegs =>
              /\ evaluation.distance_reversed = evaluation.distance_a
              /\ evaluation.distance_a
                    = ExactLegs(evaluation.a, evaluation.cities_a, Len(evaluation.a))

\* The route 1, 2, 3, 0 over the skew layout, whose legs are summed as
\* ((1 + sqrt 2) + sqrt 10) + 1, and backwards as ((sqrt 10 + sqrt 2) + 1) + 1:
\* the two sums are one unit in the last place apart.
C15_Witness ==
    /\ evaluation.state = "evaluated"
    /\ evaluation.cities_a = SkewLayout
    /\ evaluation.a = <<1, 2, 3, 0>>
    /\ evaluation.distance_reversed # evaluation.distance_a
    /\ Within(evaluation.distance_reversed, evaluation.distance_a, 2)

\* C16 (as claimed): for two routes of positive total distance, the first is
\* shorter exactly when its fitness is greater.
C16_FitnessOrder ==
    (/\ evaluation.state = "evaluated"
     /\ Less(FromInteger(0), evaluation.distance_a)
     /\ Less(FromInteger(0), evaluation.distance_b)) =>
        (Less(evaluation.distance_a, evaluation.distance_b)
            <=> Greater(evaluation.fitness_a, evaluation.fitness_b))

\* C16 (amended): for two routes of positive total distance, a greater
\* fitness means a strictly shorter route, and a strictly shorter route has a
\* fitness that is greater or equal.
C16_FitnessOrderWeak ==
    (/\ evaluation.state = "evaluated"
     /\ Less(FromInteger(0), evaluation.distance_a)
     /\ Less(FromInteger(0), evaluation.distance_b)) =>
        /\ Greater(evaluation.fitness_a, evaluation.fitness_b)
              => Less(evaluation.distance_a, evaluation.distance_b)
        /\ Less(evaluation.distance_a, evaluation.distance_b)
              => ~Greater(evaluation.fitness_b, evaluation.fitness_a)

\* Two routes over the skew layout, the first strictly shorter, with the
\* same fitness.
C16_Witness ==
    /\ evaluation.state = "evaluated"
    /\ evaluation.cities_a = SkewLayout
    /\ evaluation.cities_b = SkewLayout
    /\ Less(evaluation.distance_a, evaluation.distance_b)
    /\ evaluation.fitness_a = evaluation.fitness_b

\* C17: a single-city route has total distance 0; the fitness of a route of
\* total distance 0 is float('inf'), which is greater than the fitness of
\* every route of positive distance; the fitness of a route of positive
\* distance d is the float 1 / d, which is finite (1 / 32 for d = 32).
C17_ZeroDistanceSentinel ==
    evaluation.state = "evaluated" =>
        /\ Len(evaluation.a) = 1 => evaluation.distance_a = FromInteger(0)
        /\ evaluation.distance_a = FromInteger(0) =>
              /\ evaluation.fitness_a = FloatInfinity
              /\ Less(FromInteger(0), evaluation.distance_b) =>
                    Greater(evaluation.fitness_a, evaluation.fitness_b)
        /\ Less(FromInteger(0), evaluation.distance_a) =>
              /\ evaluation.fitness_a = Reciprocal(evaluation.distance_a)
              /\ Greater(FloatInfinity, evaluation.fitness_a)
        /\ evaluation.distance_a = FromInteger(32) =>
              evaluation.fitness_a = [exp |-> -5, man |-> <<2^24, 0>>]

\* A single-city route against a route of distance 32, whose fitness is
\* 1 / 32.
C17_Witness ==
    /\ evaluation.state = "evaluated"
    /\ Len(evaluation.a) = 1
    /\ evaluation.fitness_a = FloatInfinity
    /\ evaluation.distance_b = FromInteger(32)
    /\ evaluation.fitness_b = [exp |-> -5, man |-> <<2^24, 0>>]

\* The position of a run as a number that grows with every step: the
\* generation, then the length of the next population being built.
Measure ==
    CASE pc = "start" -> 0
      [] pc = "loop" -> 1 + generation * (pop_size + 2)
      [] pc = "offspring" ->
            2 + generation * (pop_size + 2) + Len(new_population)
      [] OTHER -> 1 + (num_generations + 1) * (pop_size + 2)

\* C18: a run on a valid configuration with at least two cities never
\* raises, has a child to append in every iteration of the while loop, moves
\* forward with every step (the measure is bounded, so the run ends), counts
\* its generations one by one and returns only when num_generations
\* generations are complete, whatever the random draws.
C18_GenerationCountTermination ==
    /\ []((ValidConfiguration /\ NumCities >= 2) =>
            /\ pc # "error"
            /\ pc = "offspring" =>
                  /\ ~SelectionRaises(population, tournament_size)
                  /\ ~TwoSampleRaises(NumCities)
                  /\ \E sample \in Samples(pop_size, tournament_size) :
                        LET parent == Selected(population, cities, sample, shared)
                        IN \E crossed \in Crossed(parent, parent, crossover_rate) :
                              Mutated(crossed, mutation_rate) # {}
            /\ Measure <= 1 + (num_generations + 1) * (pop_size + 2)
            /\ generation <= num_generations
            /\ pc = "done" => generation = num_generations)
    /\ [][(ValidConfiguration /\ NumCities >= 2) =>
             /\ Measure' > Measure
             /\ generation' \in {generation, generation + 1}
             /\ pc' = "done" => generation = num_generations]_vars

\* A run of two generations with elitism has returned although its second
\* generation improved nothing.
C18_Witness ==
    /\ ValidConfiguration
    /\ NumCities >= 2
    /\ elitism
    /\ pc = "done"
    /\ generation = 2
    /\ Len(best_distance_history) = 2
    /\ best_distance_history[1] = best_distance_history[2]

\* C19: after tournament_selection returned, and after a later write in
\* place to the returned list, the population holds the routes it held
\* before the call, in the same order; no slot of the population holds the
\* returned list; and the same tournament drawn again returns the route the
\* first call returned.
C19_SelectionReturnsCopy ==
    selection.state \in {"returned", "mutated", "again"} =>
        /\ selection.population = selection.before
        /\ selection.holders = {}
        /\ selection.state = "again" => selection.again = selection.returned

\* A tournament of two out of three routes whose returned list was changed
\* in place, and the same tournament drawn again.
C19_Witness ==
    /\ selection.state = "again"
    /\ Len(selection.population) = 3
    /\ selection.tournament_size = 2
    /\ selection.result # selection.returned
    /\ selection.again = selection.returned
    /\ selection.population[selection.sample[2]] = selection.returned
    /\ selection.population[selection.sample[1]] # selection.returned

\* Whether two lists hold the same routes, each as many times, in any order.
SameRoutes(p, q) ==
    /\ Len(p) = Len(q)
    /\ \A r \in Range(p) \cup Range(q) :
          Cardinality({ i \in DOMAIN p : p[i] = r })
             = Cardinality({ i \in DOMAIN q : q[i] = r })

\* C20: no list object is held by two slots of the population, the next
\* population and best_route; while the next population is being built, a
\* step (a child selected, crossed over, mutated in place and appended)
\* changes neither the routes of the population, nor the routes already in
\* the next population (the elite copy among them), nor best_route; and the
\* step that starts a generation at most reorders the population.
C20_NoAliasing ==
    /\ [](shared = {})
    /\ [][pc = "offspring" =>
             /\ best_route' = best_route
             /\ SubSeq(new_population', 1, Len(new_population)) = new_population
             /\ pc' = "offspring" => population' = population]_vars
    /\ [][(pc = "loop" /\ pc' = "offspring") =>
             SameRoutes(population', population)]_vars

\* In the second generation of a run with elitism and mutation but no
\* crossover, the next population holds the elite copy, which is the
\* recorded best route, and a mutated child that is no route of the
\* population.
C20_Witness ==
    /\ pc = "offspring"
    /\ elitism
    /\ crossover_rate = 0
    /\ mutation_rate > 0
    /\ generation = 1
    /\ Len(new_population) = 2
    /\ best_route = new_population[1]
    /\ new_population[2] \notin Range(population)

\* The list s read circularly from Python position k.
CircularFrom(s, k) == [i \in 1..Len(s) |-> s[((k + i - 1) % Len(s)) + 1]]

\* The cities of parent2 that are not in the block parent1[start..end], in
\* the circular order of parent2 from Python position (end + 1) mod N.
OutsideBlock ==
    LET block == { crossover.parent1[i + 1] : i \in crossover.start..crossover.end }
        Outside(city) == city \notin block
    IN SelectSeq(CircularFrom(crossover.parent2,
                              (crossover.end + 1) % Len(crossover.parent1)),
                 Outside)

\* C21: the child positions outside [start, end] are filled in the circular
\* position order (end+1) mod N, (end+2) mod N, ... with the cities of
\* parent2 that are not in the inherited block, in the circular order of
\* parent2 from index (end+1) mod N; and parent1 = [0,1,2,3,4], parent2 =
\* [4,3,2,1,0], start = 1, end = 3 give the child [4,1,2,3,0].
C21_CrossoverFillRule ==
    (crossover.state = "returned" /\ Len(crossover.parent1) >= 2) =>
        LET N == Len(crossover.parent1)
        IN /\ Len(OutsideBlock) = N - (crossover.end - crossover.start + 1)
           /\ \A j \in 1..Len(OutsideBlock) :
                 crossover.child[((crossover.end + j) % N) + 1] = OutsideBlock[j]
           /\ (/\ crossover.parent1 = AscendingParent
               /\ crossover.parent2 = DescendingParent
               /\ crossover.start = 1
               /\ crossover.end = 3) => crossover.child = <<4, 1, 2, 3, 0>>

\* The crossover of [0,1,2,3,4] and [4,3,2,1,0] with the cut points 1 and 3
\* has returned: the fill wrapped around from position 4 to position 0.
C21_Witness ==
    /\ crossover.state = "returned"
    /\ crossover.parent1 = AscendingParent
    /\ crossover.parent2 = DescendingParent
    /\ crossover.start = 1
    /\ crossover.end = 3
    /\ crossover.child[1] = 4
    /\ crossover.child[5] = 0

\* Whether a route is `route` after lines 174-175: the route itself, or the
\* route with two of its cities swapped.
MutationOf(child, route) ==
    \/ CanSkip(mutation_rate) /\ child = route
    \/ /\ CanFire(mutation_rate)
       /\ LET moved == { i \in DOMAIN route : child[i] # route[i] }
          IN /\ Cardinality(moved) = 2
             /\ \A i, j \in moved : i # j => child[i] = route[j]

\* Whether a route can be the child of an iteration of the while loop on the
\* population `pop`: a tournament winner of pop, or the crossover of two,
\* with or without a swap of two of its cities.
ChildOf(child, pop) ==
    LET winners == { tournament_selection(pop, cities, sample) :
                        sample \in Samples(Len(pop), tournament_size) }
    IN \/ /\ CanSkip(crossover_rate)
          /\ \E parent1 \in winners : MutationOf(child, parent1)
       \/ /\ CanFire(crossover_rate)
          /\ \E parent1 \in winners, parent2 \in winners :
                \E cut \in CutPoints(NumCities) :
                   MutationOf(child, order_crossover(parent1, parent2,
                                                     cut[1], cut[2]))

\* C22: the order of the steps of a generation, for pop_size >= 1.  The
\* while loop is entered with the next population holding the elite copy
\* alone (a route of least distance of the population) with elitism and
\* nothing without; every iteration appends one child, made from tournament
\* winners of the current population, and leaves the current population and
\* the history alone, until the next population has pop_size routes; only
\* then, in the same step, the next population becomes the current one, the
\* best distance is appended to the history and the generation is counted.
C22_GenerationOrder ==
    /\ []((pop_size >= 1 /\ pc = "offspring") =>
            /\ Len(new_population) < pop_size
            /\ Len(population) = pop_size
            /\ elitism =>
                  /\ Len(new_population) >= 1
                  /\ new_population[1] \in Range(population)
                  /\ \A i \in DOMAIN population :
                        total_distance(new_population[1], cities)
                           <= total_distance(population[i], cities))
    /\ [][(pop_size >= 1 /\ pc = "loop" /\ pc' = "offspring") =>
             /\ Len(new_population') = (IF elitism THEN 1 ELSE 0)
             /\ best_distance_history' = best_distance_history
             /\ generation' = generation]_vars
    /\ [][(pop_size >= 1 /\ pc = "offspring" /\ pc' # "error") =>
             /\ Len(new_population') = Len(new_population) + 1
             /\ SubSeq(new_population', 1, Len(new_population)) = new_population
             /\ ChildOf(new_population'[Len(new_population')], population)
             /\ pc' = "offspring" =>
                   /\ population' = population
                   /\ best_distance_history' = best_distance_history
                   /\ generation' = generation]_vars
    /\ [][(pop_size >= 1
            /\ (population' # population \/ generation' # generation
                   \/ best_distance_history' # best_distance_history)
            /\ pc \in {"loop", "offspring"}
            /\ ~(pc = "loop" /\ pc' = "offspring")) =>
             /\ Len(new_population') = pop_size
             /\ population' = new_population'
             /\ best_distance_history'
                   = Append(best_distance_history, best_distance')
             /\ generation' = generation + 1
             /\ pc' = "loop"]_vars

\* A generation of three routes with elitism and both rates positive is
\* complete: the elite copy first, then two children, of which one differs
\* from it.
C22_Witness ==
    /\ pop_size = 3
    /\ tournament_size = 2
    /\ elitism
    /\ crossover_rate > 0
    /\ mutation_rate > 0
    /\ generation = 1
    /\ pc = "loop"
    /\ Len(best_distance_history) = 1
    /\ Len(population) = 3
    /\ population = new_population
    /\ population[2] # population[1]

\* The lowest total distance of the routes of a non-empty list.
LeastDistance(pop) ==
    LET distances == { total_distance(pop[i], cities) : i \in DOMAIN pop }
    IN CHOOSE d \in distances : \A e \in distances : d <= e

\* Whether a step is lines 150-160 with elitism on a non-empty population.
ElitismStep ==
    /\ pc = "loop"
    /\ pc' \in {"loop", "offspring"}
    /\ elitism

\* C23: the recorded best route and best distance change only in the
\* elitism step of a generation, and only when the lowest total distance of
\* the population is strictly lower than the recorded best distance: the
\* record is then that distance and a route of the population that has it;
\* when the lowest distance is equal or higher, the route and the distance
\* are both left as they are.
C23_StrictImprovement ==
    [][pc # "start" =>
         /\ (best_route' # best_route \/ best_distance' # best_distance)
               => ElitismStep
         /\ ElitismStep =>
               IF LeastDistance(population) < best_distance
               THEN /\ best_distance' = LeastDistance(population)
                    /\ best_route' \in Range(population)
                    /\ total_distance(best_route', cities) = best_distance'
               ELSE /\ best_route' = best_route
                    /\ best_distance' = best_distance]_vars

\* The second generation of a run with elitism has passed its elitism step
\* without an improvement, although the population holds another route of
\* the recorded best distance: the record is the one of the first
\* generation.
C23_Witness ==
    /\ elitism
    /\ pc = "offspring"
    /\ generation = 1
    /\ best_distance = best_distance_history[1]
    /\ best_route = new_population[1]
    /\ \E i \in DOMAIN population :
          /\ population[i] # best_route
          /\ total_distance(population[i], cities) = best_distance

\* C24: with elitism, the population that a generation puts in place of the
\* current one holds a route of the current population whose total distance
\* is the lowest of the current population, so the lowest total distance of
\* the population never rises from one generation to the next.
C24_ElitePreserved ==
    [][(elitism /\ generation' # generation) =>
         /\ \E i \in DOMAIN population' :
               /\ population'[i] \in Range(population)
               /\ total_distance(population'[i], cities) = LeastDistance(population)
         /\ LeastDistance(population') <= LeastDistance(population)]_vars

\* Two generations of two routes of four cities with elitism and mutation
\* are complete, the second without an improvement: the population holds
\* the elite copy, of the recorded best distance, and a longer child.
C24_Witness ==
    /\ elitism
    /\ mutation_rate > 0
    /\ pc = "loop"
    /\ generation = 2
    /\ pop_size = 2
    /\ NumCities = 4
    /\ best_distance_history[1] = best_distance_history[2]
    /\ total_distance(population[1], cities) = best_distance
    /\ total_distance(population[2], cities) > best_distance

\* C25 (as claimed): with elitism, the best distance a run returns is at
\* most the total distance of every route of every population of the run,
\* the final population among them.  Stated for the final population (the
\* one line 179 put in place in the last generation) of the runs on a valid
\* configuration with at least two cities.
C25_ReturnedBestOfRun ==
    (pc = "done" /\ elitism /\ ValidConfiguration /\ NumCities >= 2) =>
        \A i \in DOMAIN population :
            best_distance <= total_distance(population[i], cities)

\* C26: with elitism, the history entry appended in a generation is the
\* lowest total distance of the population that was current in that
\* generation (the population the generation built is not counted) and is
\* at most every earlier entry, each of which is the lowest total distance
\* of the population of its own generation: the entry of generation g is
\* the lowest total distance over the populations current in generations
\* 0..g, and the first entry that of the initial population.
C26_HistoryIsLeastSoFar ==
    [][(elitism /\ generation' # generation) =>
         /\ Len(best_distance_history') = generation + 1
         /\ best_distance_history'[generation + 1] = LeastDistance(population)
         /\ \A g \in 1..generation :
               best_distance_history'[generation + 1] <= best_distance_history'[g]
         /\ \A g \in 1..generation :
               best_distance_history'[g] = best_distance_history[g]]_vars

\* Two generations with elitism are complete and the second entry of the
\* history is lower than the first, while the population the second
\* generation built holds a route that is shorter still.
C26_Witness ==
    /\ elitism
    /\ pc = "loop"
    /\ generation = 2
    /\ best_distance_history[2] < best_distance_history[1]
    /\ LeastDistance(population) < best_distance_history[2]

\* C27: in every state of a run either best_route is None and best_distance
\* is infinite, or best_route is a route and best_distance is its total
\* distance; and no step changes one of the two without the other.
C27_BestRecordConsistent ==
    /\ [](\/ best_route = NoneRoute /\ best_distance = Infinity
          \/ /\ best_route # NoneRoute
             /\ best_distance < Infinity
             /\ best_distance = total_distance(best_route, cities))
    /\ [][(best_route' # best_route) <=> (best_distance' # best_distance)]_vars

\* The record was set in the first generation and replaced in the second,
\* whose mutated child is longer than the recorded route.
C27_Witness ==
    /\ elitism
    /\ mutation_rate > 0
    /\ pc = "loop"
    /\ generation = 2
    /\ best_route # NoneRoute
    /\ best_distance < best_distance_history[1]
    /\ best_distance = total_distance(best_route, cities)
    /\ best_route = population[1]
    /\ total_distance(population[2], cities) > best_distance

\* C28: a call of order_crossover on two permutations of the same N >= 2
\* cities returns, for every pair of cut points, after its while loop read
\* at most N entries of parent2 (and at least one for each position outside
\* the block).
C28_CrossoverTerminates ==
    /\ (crossover.state = "called" /\ Len(crossover.parent1) >= 2) =>
          \A cut \in CutPoints(Len(crossover.parent1)) :
             LET result == order_crossover_run(crossover.parent1, crossover.parent2,
                                               cut[1], cut[2])
             IN /\ NoneCity \notin Range(result.child)
                /\ result.reads <= Len(crossover.parent1)
    /\ (crossover.state = "returned" /\ Len(crossover.parent1) >= 2) =>
          /\ crossover.reads <= Len(crossover.parent1)
          /\ crossover.reads >= Len(crossover.parent1)
                                   - (crossover.end - crossover.start + 1)
    /\ Len(crossover.parent1) >= 2 => crossover.state # "raised"

\* A crossover of four cities with a block of two whose loop read all four
\* entries of parent2 to fill the two open positions.
C28_Witness ==
    /\ crossover.state = "returned"
    /\ Len(crossover.parent1) = 4
    /\ crossover.end - crossover.start = 1
    /\ crossover.reads = 4

\* C29: order_crossover of a permutation with itself returns a route equal
\* to it, for every pair of cut points.
C29_SelfCrossoverIdentity ==
    (crossover.state = "returned" /\ crossover.parent1 = crossover.parent2) =>
        crossover.child = crossover.parent1

\* A crossover of a route of four cities with itself, with an inner block:
\* the fill wrapped around and skipped the block.
C29_Witness ==
    /\ crossover.state = "returned"
    /\ Len(crossover.parent1) = 4
    /\ crossover.parent1 = crossover.parent2
    /\ crossover.start = 1
    /\ crossover.end = 2
    /\ crossover.reads = 2
    /\ crossover.child = crossover.parent2

\* C30: with crossover_rate = 0 and mutation_rate = 0 no step after the
\* initialization makes a route: every route of the population, every route
\* of the next population and the recorded best route after a step is a
\* route of the population before it (or the record before it), so all of
\* them are routes of the initial population and the set of the routes of
\* the population never grows.
C30_NoNewRoutes ==
    /\ [][(crossover_rate = 0 /\ mutation_rate = 0 /\ pc # "start") =>
             /\ Range(population') \subseteq Range(population)
             /\ Range(new_population') \subseteq Range(population)
             /\ best_route' \in Range(population) \cup {best_route}
             /\ Cardinality(Range(population')) <= Cardinality(Range(population))]_vars
    /\ []((crossover_rate = 0 /\ mutation_rate = 0 /\ pc # "start") =>
             /\ Range(new_population) \subseteq Range(population)
             /\ best_route \in Range(population) \cup {NoneRoute})

\* Two generations of three routes without crossover and mutation are
\* complete, with elitism: the population holds the elite copy, which is the
\* recorded best route, and copies of two different routes.
C30_Witness ==
    /\ crossover_rate = 0
    /\ mutation_rate = 0
    /\ elitism
    /\ pc = "loop"
    /\ generation = 2
    /\ pop_size = 3
    /\ best_route = population[1]
    /\ population[2] # population[3]

=============================================================================
